---- MODULE Spec2Model ----
(***************************************************************************)
(* Model of the SRI alert / escape-route planner of src/src/App.tsx:       *)
(* risk scoring (computeSRI, sriBand), adaptive edge weights              *)
(* (nodeFactorBySri, edgeRealWeight), the shortest-path planner           *)
(* (buildAdjacency, dijkstra, computeEscapePlan) and the React component  *)
(* EscapeSRIPlanner (observation patch, band watch, hop, dismiss, reset). *)
(*                                                                         *)
(* Numbers.  The program computes with IEEE doubles; the model computes   *)
(* with exact integers in fixed units:                                     *)
(*   scores (R, T, L, E, D, raw, SRI)  in units of 1/SCALE                 *)
(*   node factors                      in units of 1/FUNIT                 *)
(*   edge real weights, path costs     in units of 1/(2*FUNIT)             *)
(* The input domains below are chosen so that every division is exact.    *)
(***************************************************************************)
EXTENDS Integers, Sequences, FiniteSets, TLC

VARIABLES
    edges,        \* the connection list handed to buildAdjacency
    points,       \* useState points: sequence of four observation bundles
    sriMap,       \* useMemo sriMap, recomputed whenever points changes
    prevBand,     \* prevBandRef.current
    currentNode,  \* useState currentNode
    alertOpen,    \* useState alertOpen
    alertFrom,    \* useState alertFrom
    escapePath,   \* useState escapePath
    escapeDest,   \* useState escapeDest
    lastOp,       \* history: the operation the last step performed
    probe         \* inputs and result of a pure-function run

vars == <<edges, points, sriMap, prevBand, currentNode, alertOpen, alertFrom,
          escapePath, escapeDest, lastOp, probe>>

appVars == <<edges, points, sriMap, prevBand, currentNode, alertOpen, alertFrom,
             escapePath, escapeDest, lastOp>>

-----------------------------------------------------------------------------
(* Types and constants                                                     *)

NODES == <<"P1", "P2", "P3", "P4">>

NodeId == {NODES[i] : i \in 1..Len(NODES)}

NULL == "null"

LIMIT_SRI == 7

Infinity == 1000000000

\* one score unit is 1/SCALE; 420 = lcm(1..7) makes the divisions of
\* computeSRI exact for every soil + sand <= 8 and rainfall in steps of 50
SCALE == 2 * 2 * 3 * 5 * 7

\* one node-factor unit is 1/FUNIT
FUNIT == 10 * LIMIT_SRI * SCALE

HOME == "P1"

EDGES_DEFAULT ==
    << [a |-> "P1", b |-> "P2", distance |-> 6],
       [a |-> "P2", b |-> "P3", distance |-> 5],
       [a |-> "P3", b |-> "P4", distance |-> 7],
       [a |-> "P1", b |-> "P3", distance |-> 9],
       [a |-> "P2", b |-> "P4", distance |-> 8] >>

Min2(x, y) == IF x <= y THEN x ELSE y

Max2(x, y) == IF x >= y THEN x ELSE y

clamp(v, lo, hi) == Max2(lo, Min2(hi, v))

\* clip01 on a quantity whose unit value is `one`
clip01(v, one) == clamp(v, 0, one)

\* L_MAP = {0: 0, 1: 0.3, 2: 0.6, 3: 1}
L_MAP(level) ==
    CASE level = 0 -> 0
      [] level = 1 -> (3 * SCALE) \div 10
      [] level = 2 -> (6 * SCALE) \div 10
      [] level = 3 -> SCALE

\* D_MAP = {0: 0, 1: 0.5, 2: 1}
D_MAP(level) ==
    CASE level = 0 -> 0
      [] level = 1 -> SCALE \div 2
      [] level = 2 -> SCALE

-----------------------------------------------------------------------------
(* Risk model                                                              *)

\* variant: the two band edges are compared the other way round
sriBandStrict(sri) ==
    IF sri < 3 * SCALE THEN "low"
    ELSE IF sri <= 7 * SCALE THEN "mid"
    ELSE "high"

sriBand(sri) ==
    IF sri <= 3 * SCALE THEN "low"
    ELSE IF sri < 7 * SCALE THEN "mid"
    ELSE "high"

InitialPoint(id) ==
    [id |-> id, rainfall |-> 0, soil |-> 0, sand |-> 0,
     hoseLeak |-> 0, excavation |-> FALSE, trafficLoad |-> 0]

makeInitialPoints == [i \in 1..Len(NODES) |-> InitialPoint(NODES[i])]

computeSRI(p) ==
    LET R     == Min2((p.rainfall * SCALE) \div 1000, SCALE)
        denom == p.soil + p.sand
        \* (f - 0.25) / 0.5 with f = soil / denom, or f = 0
        Tpre  == IF denom > 0
                 THEN ((4 * p.soil - denom) * SCALE) \div (2 * denom)
                 ELSE (0 - SCALE) \div 2
        T     == clip01(Tpre, SCALE)
        L     == L_MAP(p.hoseLeak)
        E     == IF p.excavation THEN SCALE ELSE 0
        D     == D_MAP(p.trafficLoad)
        raw   == 3 * R + 3 * T + 2 * L + 1 * E + 1 * D
    IN  [R |-> R, T |-> T, L |-> L, E |-> E, D |-> D, raw |-> raw,
         SRI |-> Min2(10 * SCALE, raw)]

-----------------------------------------------------------------------------
(* Adaptive weights                                                        *)

\* variant: the ratio is taken of the score instead of the margin, so the
\* factor falls from 1.0 at score 0 to 0.4 near the limit
nodeFactorFalling(sri) ==
    LET margin == LIMIT_SRI * SCALE - sri
    IN  IF margin <= 0 THEN 5 * FUNIT
        ELSE LET ratio == clip01(sri, LIMIT_SRI * SCALE)
             IN  FUNIT - 6 * ratio

\* variant: a site exactly at the limit is not penalised
nodeFactorStrict(sri) ==
    LET margin == LIMIT_SRI * SCALE - sri
    IN  IF margin < 0 THEN 5 * FUNIT
        ELSE LET ratio == clip01(margin, LIMIT_SRI * SCALE)
             IN  FUNIT - 6 * ratio

\* result in units of 1/FUNIT:  1 - 0.6 * ratio  =  FUNIT - 6 * margin
nodeFactorBySri(sri) ==
    LET margin == LIMIT_SRI * SCALE - sri
    IN  IF margin <= 0 THEN 5 * FUNIT
        ELSE LET ratio == clip01(margin, LIMIT_SRI * SCALE)
             IN  FUNIT - 6 * ratio

\* variant: the two node factors are added and not averaged
edgeRealWeightSum(edge, sm) ==
    LET dw == edge.distance
        fa == nodeFactorBySri(sm[edge.a])
        fb == nodeFactorBySri(sm[edge.b])
    IN  [defaultWeight |-> dw, realWeight |-> dw * (2 * (fa + fb))]

\* realWeight in units of 1/(2*FUNIT):  dw * (fa + fb) / 2
edgeRealWeight(edge, sm) ==
    LET dw == edge.distance
        fa == nodeFactorBySri(sm[edge.a])
        fb == nodeFactorBySri(sm[edge.b])
    IN  [defaultWeight |-> dw, realWeight |-> dw * (fa + fb)]

-----------------------------------------------------------------------------
(* Graph and planner                                                       *)

RECURSIVE AdjOf(_, _, _)
\* the entries buildAdjacency pushes on adj[n], in edge order
AdjOf(n, es, i) ==
    IF i > Len(es) THEN <<>>
    ELSE LET e == es[i]
             asA == IF e.a = n THEN <<[to |-> e.b, edge |-> e]>> ELSE <<>>
             asB == IF e.b = n THEN <<[to |-> e.a, edge |-> e]>> ELSE <<>>
         IN  asA \o asB \o AdjOf(n, es, i + 1)

buildAdjacency(es) == [n \in NodeId |-> AdjOf(n, es, 1)]

RECURSIVE PickMin(_, _, _, _, _)
\* the selection loop: first unvisited node of strictly smallest dist
PickMin(i, dist, visited, u, best) ==
    IF i > Len(NODES) THEN [u |-> u, best |-> best]
    ELSE LET n == NODES[i]
         IN  IF n \notin visited /\ dist[n] < best
             THEN PickMin(i + 1, dist, visited, n, dist[n])
             ELSE PickMin(i + 1, dist, visited, u, best)

RECURSIVE RelaxEdgeOnly(_, _, _, _, _, _, _)
\* variant: alt is the edge weight alone, dist[u] is not added
RelaxEdgeOnly(k, u, nbrs, visited, sm, dist, prev) ==
    IF k > Len(nbrs) THEN [dist |-> dist, prev |-> prev]
    ELSE LET to  == nbrs[k].to
             alt == edgeRealWeight(nbrs[k].edge, sm).realWeight
         IN  IF to \in visited
             THEN RelaxEdgeOnly(k + 1, u, nbrs, visited, sm, dist, prev)
             ELSE IF alt < dist[to]
             THEN RelaxEdgeOnly(k + 1, u, nbrs, visited, sm,
                                [dist EXCEPT ![to] = alt],
                                [prev EXCEPT ![to] = u])
             ELSE RelaxEdgeOnly(k + 1, u, nbrs, visited, sm, dist, prev)

RECURSIVE Relax(_, _, _, _, _, _, _)
\* the relaxation loop over adj[u]
Relax(k, u, nbrs, visited, sm, dist, prev) ==
    IF k > Len(nbrs) THEN [dist |-> dist, prev |-> prev]
    ELSE LET to  == nbrs[k].to
             w   == edgeRealWeight(nbrs[k].edge, sm).realWeight
             alt == dist[u] + w
         IN  IF to \in visited
             THEN Relax(k + 1, u, nbrs, visited, sm, dist, prev)
             ELSE IF alt < dist[to]
             THEN Relax(k + 1, u, nbrs, visited, sm,
                        [dist EXCEPT ![to] = alt], [prev EXCEPT ![to] = u])
             ELSE Relax(k + 1, u, nbrs, visited, sm, dist, prev)

RECURSIVE WalkBackNoReverse(_, _)
\* variant: the path is left in push order (destination first)
WalkBackNoReverse(cur, prev) ==
    IF cur = NULL THEN <<>>
    ELSE <<cur>> \o WalkBackNoReverse(prev[cur], prev)

RECURSIVE WalkBack(_, _)
\* path.push(cur); cur = prev[cur]  ... then reverse
WalkBack(cur, prev) ==
    IF cur = NULL THEN <<>>
    ELSE WalkBack(prev[cur], prev) \o <<cur>>

\* the PathResult null ("no path"); a found path is never empty
NO_PATH == [path |-> <<>>, cost |-> Infinity]

RECURSIVE DijkstraLoopFarthest(_, _, _, _, _, _)
\* variant: a popped target is returned only once every target is visited
DijkstraLoopFarthest(targets, adj, sm, dist, prev, visited) ==
    IF Cardinality(visited) >= Len(NODES) THEN NO_PATH
    ELSE LET sel == PickMin(1, dist, visited, NULL, Infinity)
             u   == sel.u
         IN  IF u = NULL \/ sel.best = Infinity THEN NO_PATH
             ELSE IF u \in targets /\ targets \subseteq (visited \cup {u})
             THEN [path |-> WalkBack(u, prev), cost |-> dist[u]]
             ELSE LET r == Relax(1, u, adj[u], visited \cup {u}, sm,
                                 dist, prev)
                  IN  DijkstraLoopFarthest(targets, adj, sm, r.dist, r.prev,
                                           visited \cup {u})

RECURSIVE DijkstraLoop(_, _, _, _, _, _)
DijkstraLoop(targets, adj, sm, dist, prev, visited) ==
    IF Cardinality(visited) >= Len(NODES) THEN NO_PATH
    ELSE LET sel == PickMin(1, dist, visited, NULL, Infinity)
             u   == sel.u
         IN  IF u = NULL \/ sel.best = Infinity THEN NO_PATH
             ELSE IF u \in targets
             THEN [path |-> WalkBack(u, prev), cost |-> dist[u]]
             ELSE LET r == Relax(1, u, adj[u], visited \cup {u}, sm,
                                 dist, prev)
                  IN  DijkstraLoop(targets, adj, sm, r.dist, r.prev,
                                   visited \cup {u})

\* variant: an unreachable target set yields the start alone, not null
dijkstraStartOnly(start, targets, adj, sm) ==
    LET r == DijkstraLoop(targets, adj, sm,
                          [n \in NodeId |-> IF n = start THEN 0 ELSE Infinity],
                          [n \in NodeId |-> NULL], {})
    IN  IF r = NO_PATH THEN [path |-> <<start>>, cost |-> 0] ELSE r

\* weightFn is always e |-> edgeRealWeight(e, sm).realWeight
dijkstra(start, targets, adj, sm) ==
    DijkstraLoop(targets, adj, sm,
                 [n \in NodeId |-> IF n = start THEN 0 ELSE Infinity],
                 [n \in NodeId |-> NULL], {})

\* variant: a site exactly at the limit counts as safe
safeCandidatesAtLimit(start, sm) ==
    {n \in NodeId : n # start /\ sm[n] <= LIMIT_SRI * SCALE}

safeCandidates(start, sm) ==
    {n \in NodeId : n # start /\ sm[n] < LIMIT_SRI * SCALE}

\* variant: no fallback, an empty candidate list is used as it is
planTargetsNoFallback(start, sm) == safeCandidates(start, sm)

\* variant: the candidates are not filtered by score
planTargetsAll(start, sm) == {n \in NodeId : n # start}

planTargets(start, sm) ==
    IF Cardinality(safeCandidates(start, sm)) > 0
    THEN safeCandidates(start, sm)
    ELSE {n \in NodeId : n # start}

computeEscapePlan(start, sm, adj) ==
    LET best == dijkstra(start, planTargets(start, sm), adj, sm)
    IN  IF best = NO_PATH THEN NO_PATH
        ELSE [path |-> best.path, cost |-> best.cost,
              destination |-> best.path[Len(best.path)]]

-----------------------------------------------------------------------------
(* The component EscapeSRIPlanner                                          *)

\* the patches the observation inputs are driven with; a patch is a
\* Partial<PointData>: a record over some of the fields
Patches ==
    { [rainfall |-> 1000, soil |-> 1],
      [rainfall |-> 0, soil |-> 0],
      [excavation |-> TRUE],
      [excavation |-> FALSE] }

\* variant: a patched excavation flag flips the stored flag
MergePatchToggle(p, patch) ==
    [f \in DOMAIN p |->
        IF f \in DOMAIN patch
        THEN IF f = "excavation" THEN ~p[f] ELSE patch[f]
        ELSE p[f]]

\* { ...next[index], ...patch }
MergePatch(p, patch) ==
    [f \in DOMAIN p |-> IF f \in DOMAIN patch THEN patch[f] ELSE p[f]]

updatePoint(prev, index, patch) ==
    [prev EXCEPT ![index] = MergePatch(prev[index], patch)]

RECURSIVE SriFold(_, _, _)
\* for (const p of points) map[p.id] = computeSRI(p).SRI
SriFold(pts, i, map) ==
    IF i > Len(pts) THEN map
    ELSE SriFold(pts, i + 1,
                 [map EXCEPT ![pts[i].id] = computeSRI(pts[i]).SRI])

sriMapOf(pts) == SriFold(pts, 1, [n \in NodeId |-> 0])

nowBandOf(sm) == [n \in NodeId |-> sriBand(sm[n])]

RECURSIVE FindEnteredHigh(_, _, _)
\* NODES.find(n => prevBand[n] !== "high" && nowBand[n] === "high")
FindEnteredHigh(i, prevB, nowB) ==
    IF i > Len(NODES) THEN NULL
    ELSE IF prevB[NODES[i]] # "high" /\ nowB[NODES[i]] = "high"
    THEN NODES[i]
    ELSE FindEnteredHigh(i + 1, prevB, nowB)

RECURSIVE FindEnteredHighLast(_, _, _)
FindEnteredHighLast(i, prevB, nowB) ==
    IF i < 1 THEN NULL
    ELSE IF prevB[NODES[i]] # "high" /\ nowB[NODES[i]] = "high"
    THEN NODES[i]
    ELSE FindEnteredHighLast(i - 1, prevB, nowB)

\* variant: of several entering sites the last in enumeration order is taken
enteredHighLast(prevB, nowB) == FindEnteredHighLast(Len(NODES), prevB, nowB)

\* variant: level-triggered, the previous snapshot is ignored
enteredHighLevel(prevB, nowB) ==
    FindEnteredHigh(1, [n \in NodeId |-> "low"], nowB)

enteredHighOf(prevB, nowB) == FindEnteredHigh(1, prevB, nowB)

\* variant: while an alert is open a new trigger keeps the stored path
BandWatchKeepsPath(op) ==
    LET nowBand     == nowBandOf(sriMap')
        enteredHigh == enteredHighOf(prevBand, nowBand)
        adj         == buildAdjacency(edges)
        plan        == computeEscapePlan(enteredHigh, sriMap', adj)
    IN  /\ prevBand' = nowBand
        /\ IF enteredHigh = NULL
           THEN /\ lastOp' = op
                /\ UNCHANGED <<alertOpen, alertFrom, escapePath, escapeDest>>
           ELSE /\ lastOp' = "fire"
                /\ alertOpen' = TRUE
                /\ alertFrom' = enteredHigh
                /\ IF alertOpen
                   THEN UNCHANGED <<escapePath, escapeDest>>
                   ELSE IF plan # NO_PATH
                   THEN /\ escapePath' = plan.path
                        /\ escapeDest' = plan.destination
                   ELSE /\ escapePath' = <<enteredHigh>>
                        /\ escapeDest' = NULL

\* variant: while an alert is open every cycle plans again for its trigger
BandWatchReplans(op) ==
    LET nowBand     == nowBandOf(sriMap')
        enteredHigh == enteredHighOf(prevBand, nowBand)
        adj         == buildAdjacency(edges)
        from        == IF enteredHigh # NULL THEN enteredHigh ELSE alertFrom
        plan        == computeEscapePlan(from, sriMap', adj)
    IN  /\ prevBand' = nowBand
        /\ lastOp' = IF enteredHigh = NULL THEN op ELSE "fire"
        /\ IF enteredHigh = NULL /\ ~alertOpen
           THEN UNCHANGED <<alertOpen, alertFrom, escapePath, escapeDest>>
           ELSE /\ alertOpen' = TRUE
                /\ alertFrom' = from
                /\ IF plan # NO_PATH
                   THEN /\ escapePath' = plan.path
                        /\ escapeDest' = plan.destination
                   ELSE /\ escapePath' = <<from>>
                        /\ escapeDest' = NULL

\* variant: the snapshot is stored only in a cycle that fires a trigger
BandWatchSnapshotOnFire(op) ==
    LET nowBand     == nowBandOf(sriMap')
        enteredHigh == enteredHighOf(prevBand, nowBand)
        adj         == buildAdjacency(edges)
        plan        == computeEscapePlan(enteredHigh, sriMap', adj)
    IN  IF enteredHigh = NULL
        THEN /\ lastOp' = op
             /\ UNCHANGED <<prevBand, alertOpen, alertFrom, escapePath,
                            escapeDest>>
        ELSE /\ prevBand' = nowBand
             /\ lastOp' = "fire"
             /\ alertOpen' = TRUE
             /\ alertFrom' = enteredHigh
             /\ IF plan # NO_PATH
                THEN /\ escapePath' = plan.path
                     /\ escapeDest' = plan.destination
                ELSE /\ escapePath' = <<enteredHigh>>
                     /\ escapeDest' = NULL

\* the band-watch effect, run after every render that changed sriMap
\* (it reads the new sriMap); op names the operation that caused the render
BandWatch(op) ==
    LET nowBand     == prevBand'
        enteredHigh == enteredHighOf(prevBand, nowBand)
        adj         == buildAdjacency(edges)
        plan        == computeEscapePlan(enteredHigh, sriMap', adj)
    IN  /\ prevBand' = nowBandOf(sriMap')
        /\ IF enteredHigh = NULL
           THEN /\ lastOp' = op
                /\ UNCHANGED <<alertOpen, alertFrom, escapePath, escapeDest>>
           ELSE /\ lastOp' = "fire"
                /\ alertOpen' = TRUE
                /\ alertFrom' = enteredHigh
                /\ IF plan # NO_PATH
                   THEN /\ escapePath' = plan.path
                        /\ escapeDest' = plan.destination
                   ELSE /\ escapePath' = <<enteredHigh>>
                        /\ escapeDest' = NULL

IndexOf(seq, x) ==
    IF \E i \in 1..Len(seq) : seq[i] = x
    THEN CHOOSE i \in 1..Len(seq) :
             seq[i] = x /\ \A j \in 1..(i - 1) : seq[j] # x
    ELSE 0

\* variant: a position outside the path is sent to the path's first element
nextHopToStart(path, cur) ==
    IF Len(path) < 2 THEN NULL
    ELSE LET idx == IndexOf(path, cur)
         IN  IF idx >= 1 /\ idx < Len(path) THEN path[idx + 1]
             ELSE path[1]

\* variant: off by one, the element at the found index is returned
nextHopSameIndex(path, cur) ==
    IF Len(path) < 2 THEN NULL
    ELSE LET idx == IndexOf(path, cur)
         IN  IF idx >= 1 /\ idx < Len(path) THEN path[idx]
             ELSE path[2]

\* variant: off by one, a position in the path skips the next element
nextHopSkip(path, cur) ==
    IF Len(path) < 2 THEN NULL
    ELSE LET idx == IndexOf(path, cur)
         IN  IF idx >= 1 /\ idx < Len(path)
             THEN path[Min2(idx + 2, Len(path))]
             ELSE path[2]

\* useMemo nextHop (indices are 1-based here)
nextHopOf(path, cur) ==
    IF Len(path) < 2 THEN NULL
    ELSE LET idx == IndexOf(path, cur)
         IN  IF idx >= 1 /\ idx < Len(path) THEN path[idx + 1]
             ELSE path[2]

nextHop == nextHopOf(escapePath, currentNode)

\* history label of a hop: where the traveler stood relative to the path
HopKind(path, cur) ==
    IF \A i \in 1..Len(path) : path[i] # cur THEN "hop-offpath"
    ELSE IF path[Len(path)] = cur THEN "hop-last"
    ELSE "hop"

IsHop(op) == op \in {"hop", "hop-offpath", "hop-last"}

\* the alert dialog is rendered
DialogShown == alertOpen /\ alertFrom # NULL

\* the hop button is rendered and not disabled
HopEnabled == DialogShown /\ escapeDest # NULL /\ nextHop # NULL

\* the component state after the first render and its effect
MountedState ==
    /\ points = makeInitialPoints
    /\ sriMap = sriMapOf(points)
    /\ prevBand = [n \in NodeId |-> "low"]
    /\ currentNode = HOME
    /\ alertOpen = FALSE
    /\ alertFrom = NULL
    /\ escapePath = <<>>
    /\ escapeDest = NULL
    /\ lastOp = "mount"

Init ==
    /\ edges = EDGES_DEFAULT
    /\ MountedState
    /\ probe = NULL

\* variant: a trigger also moves the traveler to the trigger site
UpdateMovesToTrigger ==
    \E index \in 1..Len(NODES), patch \in Patches :
        /\ points' = updatePoint(points, index, patch)
        /\ sriMap' = sriMapOf(points')
        /\ BandWatch("update")
        /\ currentNode' = IF lastOp' = "fire" THEN alertFrom' ELSE currentNode
        /\ UNCHANGED <<edges, probe>>

\* an input's onChange: updatePoint, re-render, band-watch effect
Update ==
    \E index \in 1..Len(NODES), patch \in Patches :
        /\ points' = updatePoint(points, index, patch)
        /\ sriMap' = sriMapOf(points')
        /\ BandWatch("update")
        /\ UNCHANGED <<edges, currentNode, probe>>

\* the reset button: setPoints(makeInitialPoints()), re-render, effect
Reset ==
    /\ points' = makeInitialPoints
    /\ sriMap' = sriMapOf(points')
    /\ BandWatch("reset")
    /\ UNCHANGED <<edges, currentNode, probe>>

\* variant: the hop is compared with the trigger site
arrivedAtTrigger(hop, dest) == hop = alertFrom

\* if (nextHop === escapeDest) setAlertOpen(false)
arrived(hop, dest) == hop = dest

\* the hop button of the dialog
Hop ==
    /\ HopEnabled
    /\ currentNode' = nextHop
    /\ alertOpen' = IF arrived(nextHop, escapeDest) THEN FALSE ELSE alertOpen
    /\ lastOp' = HopKind(escapePath, currentNode)
    /\ UNCHANGED <<edges, points, sriMap, prevBand, alertFrom, escapePath,
                   escapeDest, probe>>

\* the close button of the dialog
Dismiss ==
    /\ DialogShown
    /\ alertOpen' = FALSE
    /\ lastOp' = "dismiss"
    /\ UNCHANGED <<edges, points, sriMap, prevBand, currentNode, alertFrom,
                   escapePath, escapeDest, probe>>

Next == Update \/ Reset \/ Hop \/ Dismiss

Spec == Init /\ [][Next]_vars

-----------------------------------------------------------------------------
(* Other specifications over the same operations                           *)

\* EDGES_DEFAULT with every connection of site n removed
EdgesWithout(n) == SelectSeq(EDGES_DEFAULT, LAMBDA e : e.a # n /\ e.b # n)

\* the sites that are cut off in turn: the home site and one other
CutSites == {"P1", "P3"}

Topologies == {EdgesWithout(n) : n \in CutSites}

InitTopo ==
    /\ edges \in Topologies
    /\ MountedState
    /\ probe = NULL

\* the component over a topology with one site cut off
SpecTopo == InitTopo /\ [][Next]_vars

\* an alert with a destination is on screen
Evacuating == DialogShown /\ escapeDest # NULL

NextEvac == Hop \/ (~Evacuating /\ (Update \/ Reset))

\* while an alert with a destination is active only hops are issued, and
\* they keep being issued
SpecEvac == Init /\ [][NextEvac]_vars /\ WF_vars(Hop)

\* largest number of sites patched between two renders
MaxBatch == 2

\* bundles of a site driven high, of one taken back to mid, of one cleared
CyclePatches ==
    { [rainfall |-> 1000, soil |-> 1, excavation |-> TRUE],
      [excavation |-> FALSE],
      [rainfall |-> 0, soil |-> 0, excavation |-> FALSE] }

\* the updaters queued before one render: a patch for each of some sites
CycleBatches ==
    UNION {[S -> CyclePatches] :
               S \in {T \in SUBSET (1..Len(NODES)) :
                          Cardinality(T) >= 1 /\ Cardinality(T) <= MaxBatch}}

RECURSIVE ApplyBatch(_, _, _)
\* the queued updaters applied in turn to the previous state
ApplyBatch(pts, batch, i) ==
    IF i > Len(pts) THEN pts
    ELSE ApplyBatch(IF i \in DOMAIN batch
                    THEN updatePoint(pts, i, batch[i]) ELSE pts,
                    batch, i + 1)

\* the sites whose band is not high in the snapshot and is high after the step
EnteredNow ==
    {n \in NodeId : prevBand[n] # "high" /\ sriBand(sriMap'[n]) = "high"}

\* one update cycle: the queued updaters, one re-render, band-watch effect;
\* probe keeps the sites that entered high in the cycle
UpdateBatch ==
    \E batch \in CycleBatches :
        /\ points' = ApplyBatch(points, batch, 1)
        /\ sriMap' = sriMapOf(points')
        /\ BandWatch("update")
        /\ probe' = [entered |-> EnteredNow]
        /\ UNCHANGED <<edges, currentNode>>

InitCycle ==
    /\ edges = EDGES_DEFAULT
    /\ MountedState
    /\ probe = [entered |-> {}]

NextCycle == UpdateBatch \/ Reset

\* the observation cycles alone, several sites patched in one cycle
SpecCycle == InitCycle /\ [][NextCycle]_vars

NO_PLAN == <<NULL, <<>>, NULL>>

\* the step fires over an open alert whose destination was not reached
FiresOver == EnteredNow # {} /\ alertOpen /\ currentNode # escapeDest

\* history of an input's onChange: the site and the patch, whether they are
\* those of the cycle just before, whether the cycle fired over an open
\* alert, and the plan (trigger, path, destination) stored before it
TrackHistory(index, patch) ==
    [index |-> index,
     patch |-> patch,
     again |-> /\ lastOp \in {"update", "fire"}
               /\ probe.index = index
               /\ probe.patch = patch,
     over  |-> FiresOver,
     old   |-> IF FiresOver THEN <<alertFrom, escapePath, escapeDest>>
               ELSE NO_PLAN]

\* a site is driven high, or its excavation is ended (from high back to mid)
TrackedPatches ==
    { [rainfall |-> 1000, soil |-> 1, excavation |-> TRUE],
      [excavation |-> FALSE] }

\* an input's onChange, as Update, with its history kept in probe
UpdateTracked ==
    \E index \in 1..Len(NODES), patch \in TrackedPatches :
        /\ points' = updatePoint(points, index, patch)
        /\ sriMap' = sriMapOf(points')
        /\ BandWatch("update")
        /\ probe' = TrackHistory(index, patch)
        /\ UNCHANGED <<edges, currentNode>>

InitTracked ==
    /\ edges = EDGES_DEFAULT
    /\ MountedState
    /\ probe = [index |-> 0, patch |-> NULL, again |-> FALSE,
                over |-> FALSE, old |-> NO_PLAN]

NextTracked == UpdateTracked \/ Reset \/ Hop \/ Dismiss

\* the component, with the history of the last observation update
SpecTracked == InitTracked /\ [][NextTracked]_vars

-----------------------------------------------------------------------------
(* Specifications that run one pure function on enumerated inputs          *)

\* largest base cost tried for the connection P1-P4, which EDGES_DEFAULT lacks
MaxExtraDistance == 2

\* the six possible connections: the configured five and P1-P4
PairPool(d) == EDGES_DEFAULT \o << [a |-> "P1", b |-> "P4", distance |-> d] >>

\* the connections of pool whose index is in keep, in pool order
SubEdges(pool, keep) == SelectSeq(pool, LAMBDA e :
    \E i \in keep : pool[i] = e)

EdgeSets ==
    {SubEdges(PairPool(d), keep) :
        d \in 1..MaxExtraDistance, keep \in SUBSET (1..6)}

\* scores of one low and one high site
TwoScores == {0, 7 * SCALE}

DijkstraInputs ==
    [op : {"dijkstra"}, start : NodeId, targets : (SUBSET NodeId) \ {{}},
     edges : EdgeSets, sm : [NodeId -> TwoScores], out : {NO_PATH}]

InitDijkstra ==
    /\ edges = EDGES_DEFAULT
    /\ MountedState
    /\ probe \in DijkstraInputs

RunDijkstra ==
    /\ probe.op = "dijkstra"
    /\ probe' = [probe EXCEPT
                    !.op = "dijkstra-done",
                    !.out = dijkstra(probe.start, probe.targets,
                                     buildAdjacency(probe.edges), probe.sm)]
    /\ UNCHANGED appVars

NextDijkstra == RunDijkstra

SpecDijkstra == InitDijkstra /\ [][NextDijkstra]_vars

\* score grid: GridPerUnit steps per score point over [0, 10]
GridPerUnit == 2

ScoreGrid == {(k * SCALE) \div GridPerUnit : k \in 0..(10 * GridPerUnit)}

WholeScores == {k * SCALE : k \in 0..10}

TargetInputs ==
    [op : {"targets"}, start : NodeId, sm : [NodeId -> {0, 3 * SCALE,
     7 * SCALE - 1, 7 * SCALE, 10 * SCALE}], out : {{}}]

InitTargets ==
    /\ edges = EDGES_DEFAULT
    /\ MountedState
    /\ probe \in TargetInputs

RunTargets ==
    /\ probe.op = "targets"
    /\ probe' = [probe EXCEPT
                    !.op = "targets-done",
                    !.out = planTargets(probe.start, probe.sm)]
    /\ UNCHANGED appVars

NextTargets == RunTargets

SpecTargets == InitTargets /\ [][NextTargets]_vars

\* one connection, its two endpoint scores, and a larger score s2 for the
\* endpoint named by end
WeightInputs ==
    {[op |-> "weight", edge |-> EDGES_DEFAULT[i], end |-> e, sa |-> x,
      sb |-> y, s2 |-> z, w1 |-> 0, w2 |-> 0] :
        i \in 1..Len(EDGES_DEFAULT), e \in {"a", "b"}, x \in ScoreGrid,
        y \in WholeScores, z \in ScoreGrid}

\* the score map that gives the endpoints of edge the scores x and y
ScoresAt(edge, x, y) ==
    [n \in NodeId |-> IF n = edge.a THEN x ELSE IF n = edge.b THEN y ELSE 0]

\* the first and the second score map of a weight probe
FirstMap(pr) ==
    IF pr.end = "a" THEN ScoresAt(pr.edge, pr.sa, pr.sb)
    ELSE ScoresAt(pr.edge, pr.sb, pr.sa)

SecondMap(pr) ==
    IF pr.end = "a" THEN ScoresAt(pr.edge, pr.s2, pr.sb)
    ELSE ScoresAt(pr.edge, pr.sb, pr.s2)

InitWeight ==
    /\ edges = EDGES_DEFAULT
    /\ MountedState
    /\ probe \in {pr \in WeightInputs : pr.sa < pr.s2}

RunWeight ==
    /\ probe.op = "weight"
    /\ probe' = [probe EXCEPT
                    !.op = "weight-done",
                    !.w1 = edgeRealWeight(probe.edge,
                                          FirstMap(probe)).realWeight,
                    !.w2 = edgeRealWeight(probe.edge,
                                          SecondMap(probe)).realWeight]
    /\ UNCHANGED appVars

NextWeight == RunWeight

SpecWeight == InitWeight /\ [][NextWeight]_vars

\* scores the planner is run on: safe, band edges, at and above the limit
PlanScores ==
    {0, 3 * SCALE, 7 * SCALE - 1, 7 * SCALE, 8 * SCALE, 10 * SCALE}

PlanInputs ==
    [op : {"plan"}, start : NodeId, sm : [NodeId -> PlanScores],
     targets : {{}}, out : {NO_PATH}]

InitPlan ==
    /\ edges = EDGES_DEFAULT
    /\ MountedState
    /\ probe \in PlanInputs

\* computeEscapePlan on the configured connections
RunPlan ==
    /\ probe.op = "plan"
    /\ probe' = [probe EXCEPT
                    !.op = "plan-done",
                    !.targets = planTargets(probe.start, probe.sm),
                    !.out = computeEscapePlan(probe.start, probe.sm,
                                              buildAdjacency(edges))]
    /\ UNCHANGED appVars

NextPlan == RunPlan

SpecPlan == InitPlan /\ [][NextPlan]_vars

\* largest soil and sand amount of an observation bundle
MaxGrain == 3

\* rainfall readings below, at and above the saturation value 1000
Rainfalls == {0, 250, 500, 1000, 2000}

Bundles ==
    {[id |-> "P1", rainfall |-> r, soil |-> so, sand |-> sa, hoseLeak |-> l,
      excavation |-> e, trafficLoad |-> d] :
        r \in Rainfalls, so \in 0..MaxGrain, sa \in 0..MaxGrain,
        l \in 0..3, e \in BOOLEAN, d \in 0..2}

SriInputs == {[op |-> "sri", p |-> b, sri |-> 0, band |-> "low"] : b \in Bundles}

InitSri ==
    /\ edges = EDGES_DEFAULT
    /\ MountedState
    /\ probe \in SriInputs

\* computeSRI(p).SRI and its band
RunSri ==
    /\ probe.op = "sri"
    /\ probe' = [probe EXCEPT
                    !.op = "sri-done",
                    !.sri = computeSRI(probe.p).SRI,
                    !.band = sriBand(computeSRI(probe.p).SRI)]
    /\ UNCHANGED appVars

NextSri == RunSri

SpecSri == InitSri /\ [][NextSri]_vars

\* scores of the score grid and the largest score below the limit
FactorScores == ScoreGrid \cup {7 * SCALE - 1}

FactorInputs ==
    {[op |-> "factor", edge |-> EDGES_DEFAULT[i], sa |-> x, sb |-> y,
      fa |-> 0, fb |-> 0, w |-> 0] :
        i \in 1..Len(EDGES_DEFAULT), x \in FactorScores, y \in FactorScores}

InitFactor ==
    /\ edges = EDGES_DEFAULT
    /\ MountedState
    /\ probe \in FactorInputs

\* the two node factors and the real weight of one connection
RunFactor ==
    /\ probe.op = "factor"
    /\ probe' = [probe EXCEPT
                    !.op = "factor-done",
                    !.fa = nodeFactorBySri(probe.sa),
                    !.fb = nodeFactorBySri(probe.sb),
                    !.w = edgeRealWeight(probe.edge,
                              ScoresAt(probe.edge, probe.sa,
                                       probe.sb)).realWeight]
    /\ UNCHANGED appVars

NextFactor == RunFactor

SpecFactor == InitFactor /\ [][NextFactor]_vars

-----------------------------------------------------------------------------
(* Properties of the component                                             *)

\* site n is not high in the stored snapshot and is high after this step
NewlyHigh(n) ==
    prevBand[n] \in {"low", "mid"} /\ sriBand(sriMap'[n]) = "high"

\* C1 (edge-triggering): a step triggers a new plan if and only if some
\* site's band was low or mid in the previous snapshot and is high after the
\* update; a step after which every high site was already high by its
\* previous score triggers no plan; a triggered plan is a single one, for a
\* site that newly entered high.
EdgeTriggering ==
    [][ /\ (lastOp' = "fire") <=> (\E n \in NodeId : NewlyHigh(n))
        /\ (\A n \in NodeId : sriBand(sriMap'[n]) = "high"
                                => sriBand(sriMap[n]) = "high")
              => lastOp' # "fire"
        /\ lastOp' = "fire"
              => /\ alertOpen'
                 /\ alertFrom' \in NodeId
                 /\ NewlyHigh(alertFrom')
                 /\ escapePath'[1] = alertFrom' ]_vars

\* a plan fired for P2 while P1, earlier in the enumeration, stays high
EdgeTriggeringWitness ==
    /\ lastOp = "fire"
    /\ alertFrom = "P2"
    /\ prevBand["P1"] = "high"

\* C4 (full reset): after a reset every SRI is 0 and every band is low, the
\* alert is idle with no plan held, and the position is the home site.
FullReset ==
    lastOp = "reset"
        => /\ \A n \in NodeId : sriMap[n] = 0 /\ prevBand[n] = "low"
           /\ ~alertOpen
           /\ currentNode = HOME

\* the positions (1-based) of site x in a path
PositionsIn(path, x) == {i \in 1..Len(path) : path[i] = x}

\* C5 (hop rule): on a hop with an active path, a position that is in the
\* path and not its last element moves to the next path element, and a
\* position that is not in the path moves to the path's second element.
HopRule ==
    [][ IsHop(lastOp')
          => /\ Len(escapePath) >= 2
             /\ \A i \in PositionsIn(escapePath, currentNode) :
                    i < Len(escapePath) => currentNode' = escapePath[i + 1]
             /\ PositionsIn(escapePath, currentNode) = {}
                    => currentNode' = escapePath[2] ]_vars

\* a hop taken from a position outside a three-site path
HopRuleWitness ==
    /\ lastOp = "hop-offpath"
    /\ Len(escapePath) = 3
    /\ currentNode = escapePath[2]
    /\ alertOpen

\* C6 (arrival closes the alert): a hop closes the alert exactly when the
\* new position equals the recorded destination, the position then being
\* that destination; a hop to any other site leaves the alert open.
ArrivalClosesAlert ==
    [][ IsHop(lastOp')
          => /\ alertOpen
             /\ escapeDest' = escapeDest
             /\ (~alertOpen') <=> (currentNode' = escapeDest) ]_vars

\* arrival at the destination of a three-site path, alert closed
ArrivalClosesAlertWitness ==
    /\ lastOp = "hop"
    /\ Len(escapePath) = 3
    /\ currentNode = escapeDest
    /\ ~alertOpen

RECURSIVE ArrivesWithin(_, _, _, _)
\* hops alone, from position pos, reach dest in at most k hops
ArrivesWithin(pos, path, dest, k) ==
    IF k = 0 THEN FALSE
    ELSE LET hop == nextHopOf(path, pos)
         IN  /\ hop # NULL
             /\ \/ hop = dest
                \/ ArrivesWithin(hop, path, dest, k - 1)

\* C7 (evacuation completes): once an alert with a destination is active and
\* only hops follow, the hop stays possible, at most as many hops as the path
\* has sites lead to the destination, and eventually the position is the
\* destination and the alert is closed.
EvacuationCompletes ==
    /\ [](Evacuating
            => /\ HopEnabled
               /\ ArrivesWithin(currentNode, escapePath, escapeDest,
                                Len(escapePath)))
    /\ (Evacuating ~> (~alertOpen /\ currentNode = escapeDest))

\* the evacuation from P4 over a three-site path has arrived at P1
EvacuationCompletesWitness ==
    /\ IsHop(lastOp)
    /\ alertFrom = "P4"
    /\ Len(escapePath) = 3
    /\ currentNode = escapeDest
    /\ ~alertOpen

Connected(x, y) ==
    \E k \in 1..Len(edges) : {edges[k].a, edges[k].b} = {x, y}

\* C8 (plan well-formedness): a stored plan's path starts at the recorded
\* trigger; with a destination present the path ends at it, the destination
\* differs from the trigger, consecutive path sites are connected and no
\* site appears twice.
PlanWellFormed ==
    alertFrom # NULL
        => /\ Len(escapePath) >= 1
           /\ escapePath[1] = alertFrom
           /\ escapeDest # NULL
                => /\ escapePath[Len(escapePath)] = escapeDest
                   /\ escapeDest # alertFrom
                   /\ \A i \in 1..(Len(escapePath) - 1) :
                          Connected(escapePath[i], escapePath[i + 1])
                   /\ \A i, j \in 1..Len(escapePath) :
                          escapePath[i] = escapePath[j] => i = j

\* a stored plan over three sites
PlanWellFormedWitness ==
    /\ alertFrom # NULL
    /\ escapeDest # NULL
    /\ Len(escapePath) = 3

Isolated(n) == \A k \in 1..Len(edges) : edges[k].a # n /\ edges[k].b # n

\* C9 (planning failure is a state): a plan fired for a site without
\* connections leaves the alert active with that trigger recorded, no
\* destination, the path equal to the trigger alone, and no hop possible;
\* this lasts as long as that site is the recorded trigger.
PlanningFailureIsState ==
    (alertFrom # NULL /\ Isolated(alertFrom))
        => /\ escapeDest = NULL
           /\ escapePath = <<alertFrom>>
           /\ nextHop = NULL
           /\ ~HopEnabled
           /\ lastOp = "fire" => alertOpen

\* the cut-off site has just entered high
PlanningFailureIsStateWitness ==
    /\ lastOp = "fire"
    /\ Isolated(alertFrom)
    /\ alertOpen
    /\ escapeDest = NULL

\* C13 (position frame): the position starts at the home site and only a
\* hop changes it; observation updates, triggers, plan replacement, reset
\* and dismissal leave it unchanged.
PositionFrame ==
    /\ currentNode = HOME
    /\ [][ /\ currentNode' # currentNode => IsHop(lastOp')
           /\ lastOp' \in {"update", "fire", "reset", "dismiss"}
                => currentNode' = currentNode ]_vars

\* a trigger fired for another site while the traveler stands away from home
PositionFrameWitness ==
    /\ lastOp = "fire"
    /\ currentNode # HOME
    /\ alertFrom # currentNode
    /\ escapePath[1] = alertFrom

\* C19 (baseline snapshot): after every completed update cycle, fired or
\* not, and after a reset, the stored snapshot is the band of each site's
\* current score; after mounting it is low for every site.
BaselineSnapshot ==
    /\ \A i \in 1..Len(NODES) :
           prevBand[NODES[i]] = sriBand(computeSRI(points[i]).SRI)
    /\ lastOp = "mount" => \A n \in NodeId : prevBand[n] = "low"

\* a cycle that fired nothing stored a snapshot with a mid and a high site
BaselineSnapshotWitness ==
    /\ lastOp = "update"
    /\ \E n \in NodeId : prevBand[n] = "mid"
    /\ \E n \in NodeId : prevBand[n] = "high"

\* C14 (single active plan): a trigger that fires while an alert is open and
\* its destination is not reached replaces the stored trigger, path and
\* destination together by those of the plan for the newly high site.
PlanSuperseded ==
    [][ (lastOp' = "fire" /\ alertOpen /\ currentNode # escapeDest)
          => LET plan == computeEscapePlan(alertFrom', sriMap',
                                           buildAdjacency(edges))
             IN  /\ alertOpen'
                 /\ alertFrom' \in NodeId
                 /\ NewlyHigh(alertFrom')
                 /\ plan # NO_PATH
                 /\ escapePath' = plan.path
                 /\ escapeDest' = plan.destination
                 /\ escapePath'[1] = alertFrom'
                 /\ escapePath'[Len(escapePath')] = escapeDest' ]_vars

\* a trigger fired over an open, unfinished alert; trigger, path and
\* destination all differ from those stored before
PlanSupersededWitness ==
    /\ lastOp = "fire"
    /\ probe.over
    /\ probe.old[3] # NULL
    /\ probe.old[1] # alertFrom
    /\ probe.old[2] # escapePath
    /\ probe.old[3] # escapeDest

\* the first site, in the order of NODES, of a non-empty set of sites
FirstOf(S) ==
    LET idx == {i \in 1..Len(NODES) : NODES[i] \in S}
    IN  NODES[CHOOSE i \in idx : \A j \in idx : i <= j]

\* C15 (simultaneous escalation): when several sites enter high in one
\* cycle the trigger is the first of them in the order P1..P4; all of them
\* are high in the stored snapshot afterwards, and a site that is high in the
\* snapshot and stays high triggers nothing, so the others are not queued.
FirstEntrantOnly ==
    [][ LET entering == {n \in NodeId : NewlyHigh(n)}
        IN  /\ Cardinality(entering) >= 2
                 => /\ lastOp' = "fire"
                    /\ alertFrom' = FirstOf(entering)
                    /\ escapePath'[1] = alertFrom'
                    /\ \A n \in entering : prevBand'[n] = "high"
            /\ lastOp' = "fire" => alertFrom' \in entering
            /\ \A n \in NodeId :
                   (prevBand[n] = "high" /\ sriBand(sriMap'[n]) = "high")
                       => ~(lastOp' = "fire" /\ alertFrom' = n) ]_vars

\* P2 and P4 entered high in the same cycle and P2 is the trigger
FirstEntrantOnlyWitness ==
    /\ lastOp = "fire"
    /\ probe.entered = {"P2", "P4"}
    /\ alertFrom = "P2"
    /\ prevBand["P4"] = "high"

\* C16 (idempotent patch): the same patch applied to the same site twice in
\* a row leaves, the second time, every bundle, every SRI and band, and the
\* alert and plan state as they were after the first.
PatchIdempotent ==
    [][ (lastOp' \in {"update", "fire"} /\ probe'.again)
          => /\ points' = points
             /\ sriMap' = sriMap
             /\ prevBand' = prevBand
             /\ lastOp' = "update"
             /\ <<alertOpen', alertFrom', escapePath', escapeDest'>>
                    = <<alertOpen, alertFrom, escapePath, escapeDest>>
             /\ currentNode' = currentNode ]_vars

\* the patch that drove a site high was applied again; the alert it fired
\* is still the stored one
PatchIdempotentWitness ==
    /\ lastOp = "update"
    /\ probe.again
    /\ alertOpen
    /\ alertFrom = NODES[probe.index]
    /\ sriBand(sriMap[alertFrom]) = "high"

\* C21 as stated (hops follow connections): a hop moves the traveler between
\* two sites joined by a connection or leaves the position unchanged.
HopsFollowConnections ==
    [][ IsHop(lastOp')
          => \/ currentNode' = currentNode
             \/ Connected(currentNode, currentNode') ]_vars

\* C21 (hops follow connections, amended): a hop from a position in the
\* path moves the traveler between two sites joined by a connection or
\* leaves the position unchanged; a hop from a position not in the path
\* moves to the path's second element, which is joined by a connection to
\* the trigger site and need not be joined to the position left.
HopsOnPathFollowConnections ==
    [][ /\ lastOp' \in {"hop", "hop-last"}
             => \/ currentNode' = currentNode
                \/ Connected(currentNode, currentNode')
        /\ lastOp' = "hop-offpath"
             => /\ currentNode' = escapePath[2]
                /\ escapePath[1] = alertFrom
                /\ Connected(alertFrom, currentNode') ]_vars

\* an off-path hop has put the traveler on P4, the second element of the
\* plan for P2
HopsOnPathFollowConnectionsWitness ==
    /\ lastOp = "hop-offpath"
    /\ escapePath = <<"P2", "P4">>
    /\ currentNode = "P4"
    /\ ~alertOpen

\* C22 (no hop away from the destination): a hop taken while the position
\* is the last element of the active path does not change the position.
NoHopFromDestination ==
    [][ lastOp' = "hop-last" => currentNode' = currentNode ]_vars

\* C23 (plan frame): an update cycle in which no site newly enters high
\* leaves the alert status, the trigger, the path and the destination as
\* they were, whatever plan the new scores would give.
PlanFrame ==
    [][ lastOp' = "update"
          => /\ \A n \in NodeId : ~NewlyHigh(n)
             /\ alertOpen' = alertOpen
             /\ alertFrom' = alertFrom
             /\ escapePath' = escapePath
             /\ escapeDest' = escapeDest ]_vars

\* after a cycle that fired nothing the open alert still holds a plan that
\* the planner would no longer return for the current scores
PlanFrameWitness ==
    /\ lastOp = "update"
    /\ alertOpen
    /\ escapeDest # NULL
    /\ computeEscapePlan(alertFrom, sriMap, buildAdjacency(edges)).path
           # escapePath

-----------------------------------------------------------------------------
(* Properties of the pure functions                                        *)

\* the least element of a non-empty set of numbers
Least(S) == CHOOSE x \in S : \A y \in S : x <= y

\* real weight of the cheapest connection of es joining x and y
JoinWeight(es, sm, x, y) ==
    LET ws == {edgeRealWeight(es[k], sm).realWeight :
                   k \in {j \in 1..Len(es) : {es[j].a, es[j].b} = {x, y}}}
    IN  IF ws = {} THEN Infinity ELSE Least(ws)

\* every sequence of distinct sites
SimplePaths ==
    {p \in UNION {[1..k -> NodeId] : k \in 1..Len(NODES)} :
        \A i, j \in DOMAIN p : p[i] = p[j] => i = j}

RECURSIVE RouteCost(_, _, _, _)
\* real cost of following p from its i-th site on, Infinity if p leaves es
RouteCost(es, sm, p, i) ==
    IF i >= Len(p) THEN 0
    ELSE Min2(Infinity, JoinWeight(es, sm, p[i], p[i + 1])
                            + RouteCost(es, sm, p, i + 1))

\* least real cost from start to any member of targets (Infinity if none)
LeastCost(es, sm, start, targets) ==
    Least({Infinity}
          \cup {RouteCost(es, sm, p, 1) :
                    p \in {q \in SimplePaths :
                              q[1] = start /\ q[Len(q)] \in targets}})

RECURSIVE PathCost(_, _, _, _)
PathCost(es, sm, path, i) ==
    IF i >= Len(path) THEN 0
    ELSE JoinWeight(es, sm, path[i], path[i + 1])
             + PathCost(es, sm, path, i + 1)

\* C2 (planner optimality): dijkstra returns "no path" exactly when no
\* target is reachable from start; otherwise it returns a path of the graph
\* from start to a target whose cost is the returned cost and is the least
\* real cost from start to any target.
DijkstraOptimal ==
    probe.op = "dijkstra-done"
        => LET least == LeastCost(probe.edges, probe.sm, probe.start,
                                  probe.targets)
               path  == probe.out.path
           IN  /\ (probe.out = NO_PATH) <=> (least >= Infinity)
               /\ probe.out # NO_PATH
                    => /\ path[1] = probe.start
                       /\ path[Len(path)] \in probe.targets
                       /\ PathCost(probe.edges, probe.sm, path, 1)
                              = probe.out.cost
                       /\ probe.out.cost = least

\* a target two connections away was returned although another target of
\* higher cost is a direct neighbour of the start
DijkstraOptimalWitness ==
    /\ probe.op = "dijkstra-done"
    /\ probe.out # NO_PATH
    /\ Len(probe.out.path) = 3
    /\ \E t \in probe.targets :
           /\ t # probe.out.path[3]
           /\ JoinWeight(probe.edges, probe.sm, probe.start, t) < Infinity

\* C3 (target-set selection): the target set never contains the trigger; it
\* is the set of other sites with score < 7 when that set is non-empty and
\* the set of all other sites when every other site has score >= 7.
TargetSelection ==
    probe.op = "targets-done"
        => LET others == NodeId \ {probe.start}
               below  == {n \in others : probe.sm[n] < 7 * SCALE}
           IN  /\ probe.start \notin probe.out
               /\ below # {} => probe.out = below
               /\ (\A n \in others : probe.sm[n] >= 7 * SCALE)
                    => probe.out = others

\* a site exactly at score 7 was left out of a non-empty target set
TargetSelectionWitness ==
    /\ probe.op = "targets-done"
    /\ probe.out # {}
    /\ \E n \in NodeId \ {probe.start} :
           probe.sm[n] = 7 * SCALE /\ n \notin probe.out

\* C10 (weight monotonicity): raising one endpoint's score, the other score
\* and the base cost fixed, never lowers the connection's real cost.
WeightMonotone ==
    probe.op = "weight-done" => probe.w2 >= probe.w1

\* the raised score crosses the limit and the real cost grows
WeightMonotoneWitness ==
    /\ probe.op = "weight-done"
    /\ probe.sa < 7 * SCALE
    /\ probe.s2 >= 7 * SCALE
    /\ probe.w2 > probe.w1

\* the score map of the worked example: P1 at 8, every other site at 0
WorkedMap == [n \in NodeId |-> IF n = "P1" THEN 8 * SCALE ELSE 0]

WorkedRun ==
    /\ probe.op = "plan-done"
    /\ probe.start = "P1"
    /\ probe.sm = WorkedMap

\* C11 as stated (worked example): with P1 at 8 and the rest at 0 the target
\* set is {P2,P3,P4}, the plan is [P1,P2] to P2, its cost is 18 and the node
\* factor of a site at score 0 is 1.0.
WorkedExampleCost18 ==
    WorkedRun
        => /\ probe.targets = {"P2", "P3", "P4"}
           /\ probe.out # NO_PATH
           /\ probe.out.path = <<"P1", "P2">>
           /\ probe.out.destination = "P2"
           /\ probe.out.cost = 18 * (2 * FUNIT)
           /\ nodeFactorBySri(0) = FUNIT

\* C11 (worked example, amended): with P1 at 8 and the rest at 0 the target
\* set is {P2,P3,P4}, the plan is [P1,P2] to P2, its cost is
\* 6 x ((5.0 + 0.4) / 2) = 16.2 and the node factor of a site at score 0 is 0.4.
WorkedExample ==
    WorkedRun
        => /\ probe.targets = {"P2", "P3", "P4"}
           /\ probe.out # NO_PATH
           /\ probe.out.path = <<"P1", "P2">>
           /\ probe.out.destination = "P2"
           /\ 10 * probe.out.cost = 162 * (2 * FUNIT)
           /\ 10 * nodeFactorBySri(0) = 4 * FUNIT
           /\ nodeFactorBySri(8 * SCALE) = 5 * FUNIT

\* the planner has run on the worked example and returned P2
WorkedExampleWitness ==
    /\ WorkedRun
    /\ probe.out # NO_PATH
    /\ probe.out.destination = "P2"

\* C18 (a plan is always found): on the configured connections, for every
\* trigger and every score map, computeEscapePlan returns a plan with a
\* destination other than the trigger and a finite cost.
PlanAlwaysFound ==
    probe.op = "plan-done"
        => /\ probe.out # NO_PATH
           /\ probe.out.destination \in NodeId \ {probe.start}
           /\ probe.out.cost < Infinity
           /\ probe.out.cost > 0

\* a plan was returned with all four sites at or above the limit
PlanAlwaysFoundWitness ==
    /\ probe.op = "plan-done"
    /\ \A n \in NodeId : probe.sm[n] >= 7 * SCALE
    /\ probe.out # NO_PATH

\* C20 (destination safety): if some site other than the trigger has score
\* < 7, the plan's destination has score < 7; a destination at or above the
\* limit is chosen only when every other site is at or above the limit.
DestinationSafe ==
    (probe.op = "plan-done" /\ probe.out # NO_PATH)
        => LET others == NodeId \ {probe.start}
               dest   == probe.out.destination
           IN  /\ (\E n \in others : probe.sm[n] < 7 * SCALE)
                    => probe.sm[dest] < 7 * SCALE
               /\ probe.sm[dest] >= 7 * SCALE
                    => \A n \in others : probe.sm[n] >= 7 * SCALE

\* the only safe site is two connections away, behind a site at the limit
DestinationSafeWitness ==
    /\ probe.op = "plan-done"
    /\ probe.out # NO_PATH
    /\ Len(probe.out.path) = 3
    /\ probe.sm[probe.out.path[2]] >= 7 * SCALE
    /\ probe.sm[probe.out.destination] < 7 * SCALE
    /\ \A n \in NodeId \ {probe.start, probe.out.destination} :
           probe.sm[n] >= 7 * SCALE

\* C12 (score range and banding): the SRI of every valid bundle lies in
\* [0, 10] and falls in exactly one band: low iff SRI <= 3, mid iff
\* 3 < SRI < 7, high iff SRI >= 7.
SriRangeAndBand ==
    probe.op = "sri-done"
        => /\ 0 <= probe.sri /\ probe.sri <= 10 * SCALE
           /\ probe.band \in {"low", "mid", "high"}
           /\ probe.band = "low" <=> probe.sri <= 3 * SCALE
           /\ probe.band = "mid"
                <=> (3 * SCALE < probe.sri /\ probe.sri < 7 * SCALE)
           /\ probe.band = "high" <=> probe.sri >= 7 * SCALE

\* a bundle whose SRI is exactly 7 is in band high
SriRangeAndBandWitness ==
    /\ probe.op = "sri-done"
    /\ probe.sri = 7 * SCALE
    /\ probe.band = "high"

\* the score and factor of each endpoint of the probed connection
FactorPairs == {<<probe.sa, probe.fa>>, <<probe.sb, probe.fb>>}

\* the parts of C17 that do not depend on the direction of the range: 5.0
\* from the limit on, 1 - 0.6 * ratio below it, never below 0.4, and no real
\* cost below 0.4 x base cost
FactorFormula ==
    /\ \A sf \in FactorPairs :
           /\ sf[1] >= 7 * SCALE => sf[2] = 5 * FUNIT
           /\ sf[1] < 7 * SCALE
                => sf[2] = FUNIT - 6 * clamp(7 * SCALE - sf[1], 0, 7 * SCALE)
           /\ 10 * sf[2] >= 4 * FUNIT
    /\ 10 * probe.w >= 4 * probe.edge.distance * (2 * FUNIT)

\* C17 as stated (node factor range): below the limit the factor is 1.0 at
\* score 0 and falls towards 0.4 as the score nears the limit.
FactorRangeFalling ==
    probe.op = "factor-done"
        => /\ FactorFormula
           /\ \A sf \in FactorPairs : sf[1] = 0 => sf[2] = FUNIT
           /\ (probe.sa <= probe.sb /\ probe.sb < 7 * SCALE)
                => probe.fa >= probe.fb

\* C17 (node factor range, amended): the factor is 5.0 for every score >= 7;
\* below 7 it is 1 - 0.6 * ratio with ratio = clamp((7 - score) / 7, 0, 1),
\* 0.4 at score 0 and rising towards 1.0 as the score nears the limit; it is
\* never below 0.4, so no real cost is below 0.4 x base cost.
FactorRange ==
    probe.op = "factor-done"
        => /\ FactorFormula
           /\ \A sf \in FactorPairs :
                  /\ sf[1] = 0 => 10 * sf[2] = 4 * FUNIT
                  /\ sf[1] < 7 * SCALE => sf[2] < FUNIT
                  /\ sf[1] = 7 * SCALE - 1 => sf[2] = FUNIT - 6
           /\ (probe.sa <= probe.sb /\ probe.sb < 7 * SCALE)
                => probe.fa <= probe.fb

\* one endpoint at score 0 with factor 0.4, the other exactly at the limit
FactorRangeWitness ==
    /\ probe.op = "factor-done"
    /\ probe.sa = 0
    /\ 10 * probe.fa = 4 * FUNIT
    /\ probe.sb = 7 * SCALE
    /\ probe.fb = 5 * FUNIT

\* C24 (nearest target, no pass-through): no site strictly between the
\* trigger and the destination of a returned plan is in the target set; when
\* every other site is at or above the limit the path has exactly two sites
\* and the destination is joined to the trigger by a connection.
NoPassThrough ==
    (probe.op = "plan-done" /\ probe.out # NO_PATH)
        => LET path == probe.out.path
           IN  /\ \A i \in 2..(Len(path) - 1) : path[i] \notin probe.targets
               /\ (\A n \in NodeId \ {probe.start} :
                       probe.sm[n] >= 7 * SCALE)
                    => /\ Len(path) = 2
                       /\ path[1] = probe.start
                       /\ Connected(path[1], path[2])

\* the fallback target set: every site is at or above the limit and the plan
\* for P4 ends at one of its two neighbours
NoPassThroughWitness ==
    /\ probe.op = "plan-done"
    /\ probe.start = "P4"
    /\ \A n \in NodeId : probe.sm[n] >= 7 * SCALE
    /\ probe.targets = {"P1", "P2", "P3"}
    /\ probe.out # NO_PATH
    /\ Len(probe.out.path) = 2

====
